---------------------------- MODULE Spec2Model ----------------------------
(***************************************************************************)
(* Model of the ddmw-client protocol layer: the framed request/reply       *)
(* primitive (conn.rs), outbound message transfer (msg/send.rs), inbound    *)
(* message reception with its continuous-reception loops (msg/recv.rs) and *)
(* authentication (auth.rs).                                               *)
(*                                                                         *)
(* One call is active on the connection at a time.  `op` names the call,   *)
(* `pc` the await point it is suspended at, `wire` is the ordered record   *)
(* of everything the call wrote to and read from the connection, and `ret` *)
(* is the value the call returned.                                         *)
(***************************************************************************)
EXTENDS Integers, Sequences, FiniteSets, TLC

VARIABLES
  op,        \* the active call: "idle", "send", "recv", "recvloop", "recvloop_a",
             \* "authenticate", "connect", "sendrecv", "node"
  pc,        \* the await point the call is suspended at
  wire,      \* events on the connection, in order
  ret,       \* the call's return value
  mi,        \* send: the MsgInfo descriptor passed by the caller
  xferid,    \* send: the local `xferid` (Option<String>)
  rcv,       \* recv: locals of proc_inbound_msg
  peer,      \* content sections the peer has sent and the client has not consumed
  loop,      \* recvloop: kill switch, iteration and procmsg bookkeeping
  cred,      \* authenticate: the Auth context (`self`)
  fs,        \* the token file and the passphrase file on disk
  fsops,     \* file system operations of the call, in order
  link,      \* who holds the connection, and the authenticate calls made on it
  node       \* a node property value, its text and the result of parsing it

authVars == <<cred, fs, fsops>>

vars == <<op, pc, wire, ret, mi, xferid, rcv, peer, loop, cred, fs, fsops, link, node>>

-----------------------------------------------------------------------------
(* Bounds of the model *)

\* Size in bytes of a non-empty metadata buffer offered to send / announced to recv.
MetaBytes == 3

\* Size in bytes of a non-empty payload buffer offered to send / announced to recv.
PayloadBytes == 5

\* Number of messages a reception loop may start before the model stops feeding it.
MaxMsgs == 2

\* Number of authenticate calls the application makes on one connection.
MaxAuthCalls == 2

-----------------------------------------------------------------------------
(* Option<T>: None is the empty set, Some(v) the singleton *)

None == {}

Some(v) == {v}

Unwrap(o) == CHOOSE v \in o : TRUE

IsSome(o) == o # {}

-----------------------------------------------------------------------------
(* blather::Params: a map from keys to values; Telegram: topic + Params *)

NoParams == [k \in {} |-> 0]

Have(p, k) == k \in DOMAIN p

\* Params::get_str
GetStr(p, k) == IF Have(p, k) THEN Some(p[k]) ELSE None

AddParam(p, k, v) == (k :> v) @@ p

Telegram(topic, params) == [t |-> "Telegram", topic |-> topic, params |-> params]

\* Items a read of the framed stream can produce besides a codec::Input frame
Closed == [t |-> "Closed"]

CodecError == [t |-> "Error"]

-----------------------------------------------------------------------------
(* Return values *)

Pending == [st |-> "Pending"]

Ok(v) == [st |-> "Ok", val |-> v]

Err(kind) == [st |-> "Err", err |-> kind, params |-> NoParams]

ServerError(p) == [st |-> "Err", err |-> "ServerError", params |-> p]

IsOk(r) == r.st = "Ok"

IsErr(r) == r.st = "Err"

-----------------------------------------------------------------------------
(* Events on the connection *)

\* Every event names the phase it belongs to in `sec`: "ctl", "meta", "payload"

\* A telegram written to the connection
WriteTg(tg) == [ev |-> "write", sec |-> "ctl", tg |-> tg]

\* A raw content frame written to the connection (`data` is the Option<InputType>)
WriteContent(sec, data) == [ev |-> "write", sec |-> sec, data |-> data]

\* One item taken from the incoming stream
Read(sec, in) == [ev |-> "read", sec |-> sec, input |-> in]

-----------------------------------------------------------------------------
(* conn.rs: expect_okfail *)

\* What one read of the framed stream can produce while the client waits for a
\* reply: a telegram (any topic, or none), a non-telegram frame, end of stream,
\* or a codec error.
ReplyParams == {NoParams, "XferId" :> "X1", "XferId" :> "X2"}

FailParams == {NoParams, "Reason" :> "denied"}

Replies ==
  {Telegram(Some("Ok"), p) : p \in ReplyParams}
    \cup {Telegram(Some("Fail"), p) : p \in FailParams}
    \cup {Telegram(Some("Msg"), NoParams), Telegram(None, NoParams)}
    \cup {[t |-> "Bytes"], Closed, CodecError}

ExpectOkFail_AnyTopicOk(in) ==
  IF in = Closed THEN Err("Disconnected")
  ELSE IF in = CodecError THEN Err("Blather")
  ELSE IF in.t = "Telegram" /\ in.topic = Some("Fail") THEN ServerError(in.params)
  ELSE IF in.t = "Telegram" THEN Ok(in.params)
  ELSE Err("BadState")

ExpectOkFail_FailIsBadState(in) ==
  IF in = Closed THEN Err("Disconnected")
  ELSE IF in = CodecError THEN Err("Blather")
  ELSE IF in.t = "Telegram" /\ in.topic = Some("Ok") THEN Ok(in.params)
  ELSE Err("BadState")

ExpectOkFail(in) ==
  IF in = Closed THEN Err("Disconnected")
  ELSE IF in = CodecError THEN Err("Blather")
  ELSE IF in.t = "Telegram" /\ in.topic = Some("Ok") THEN Ok(in.params)
  ELSE IF in.t = "Telegram" /\ in.topic = Some("Fail") THEN ServerError(in.params)
  ELSE Err("BadState")

-----------------------------------------------------------------------------
(* msg/send.rs *)

\* A usize byte count, as its high and low 32-bit words: hi * 2^32 + lo
USize(hi, lo) == [hi |-> hi, lo |-> lo]

\* `sz as u32` keeps the low 32 bits
AsU32(sz) == sz.lo

\* `sz as u64` keeps the value; the payload sizes offered here are below 2^32
AsU64(sz) == sz.lo

\* InputType values offered as content of `n` bytes.  A File whose metadata
\* cannot be read is `exists |-> FALSE`.
InputTypes(n) ==
  {[kind |-> k, size |-> USize(0, n), exists |-> TRUE] : k \in {"Params", "File", "VecBuf", "Bytes"}}
    \cup {[kind |-> "VecBuf", size |-> USize(0, 0), exists |-> TRUE],
          [kind |-> "File", size |-> USize(0, n), exists |-> FALSE]}

\* A metadata file of 2^32 + n bytes
HugeFile(n) == [kind |-> "File", size |-> USize(1, n), exists |-> TRUE]

CmdIds == {0, 17}

Channels == {"news"}

Descriptors ==
  [cmd : CmdIds,
   meta : {None} \cup {Some(c) : c \in InputTypes(MetaBytes) \cup {HugeFile(MetaBytes)}},
   payload : {None} \cup {Some(c) : c \in InputTypes(PayloadBytes)}]

NoDescriptor == [cmd |-> 0, meta |-> None, payload |-> None]

\* InputType::get_size
GetSize(it) == IF it.kind = "File" /\ ~it.exists THEN Err("IO") ELSE Ok(it.size)

\* MsgInfo::get_meta_size: `sz as u32` truncates
GetMetaSize(d) ==
  LET r == IF IsSome(d.meta) THEN GetSize(Unwrap(d.meta)) ELSE Ok(USize(0, 0))
  IN IF IsErr(r) THEN r ELSE Ok(AsU32(r.val))

\* MsgInfo::get_payload_size: `sz as u64`
GetPayloadSize(d) ==
  LET r == IF IsSome(d.payload) THEN GetSize(Unwrap(d.payload)) ELSE Ok(USize(0, 0))
  IN IF IsErr(r) THEN r ELSE Ok(AsU64(r.val))

MsgTelegram_AlwaysLen(ch, cmd, metalen, payloadlen) ==
  LET p0 == AddParam(NoParams, "_Ch", ch)
      p1 == IF cmd # 0 THEN AddParam(p0, "Cmd", cmd) ELSE p0
      p2 == IF metalen # 0 THEN AddParam(p1, "MetaLen", metalen) ELSE p1
  IN Telegram(Some("Msg"), AddParam(p2, "Len", payloadlen))

\* The Msg telegram send prepares
MsgTelegram(ch, cmd, metalen, payloadlen) ==
  LET p0 == AddParam(NoParams, "_Ch", ch)
      p1 == IF cmd # 0 THEN AddParam(p0, "Cmd", cmd) ELSE p0
      p2 == IF metalen # 0 THEN AddParam(p1, "MetaLen", metalen) ELSE p1
      p3 == IF payloadlen # 0 THEN AddParam(p2, "Len", payloadlen) ELSE p2
  IN Telegram(Some("Msg"), p3)

XferIdOf_Defaulted(params) ==
  IF Have(params, "XferId") THEN GetStr(params, "XferId") ELSE Some("")

\* params.get_str("XferId")
XferIdOf(params) == GetStr(params, "XferId")

\* `if let Some(payload) = &mi.payload`
PcAfterMeta(d) == IF IsSome(d.payload) THEN "send_payload" ELSE "done"

PcAfterCtl_Always(d) == "send_meta"

\* `if let Some(meta) = &mi.meta`
PcAfterCtl(d) == IF IsSome(d.meta) THEN "send_meta" ELSE PcAfterMeta(d)

PcAfterMetaWrite_Pipelined(d) ==
  IF IsSome(d.payload) THEN "send_payload" ELSE "send_meta_ack"

\* send_content(conn, meta) is followed by expect_okfail(conn)
PcAfterMetaWrite(d) == "send_meta_ack"

Acked_Ignored(r) == TRUE

\* `crate::expect_okfail(conn).await?`: only an Ok reply lets send go on
Acked(r) == IsOk(r)

ReturnedId_FromAck(xid, ackparams) ==
  IF Have(ackparams, "XferId") THEN ackparams["XferId"] ELSE Unwrap(xid)

\* `Ok(xferid)`: the identifier extracted from the control reply
ReturnedId(xid, ackparams) == Unwrap(xid)

\* send, up to and including the write of the Msg request
SendCall(d, ch, wok) ==
  /\ op = "idle"
  /\ op' = "send"
  /\ mi' = d
  /\ LET ml == GetMetaSize(d)
         pl == GetPayloadSize(d)
     IN IF IsErr(ml) \/ IsErr(pl)
        THEN /\ ret' = (IF IsErr(ml) THEN ml ELSE pl)
             /\ pc' = "done"
             /\ wire' = wire
        ELSE IF wok
        THEN /\ wire' = Append(wire, WriteTg(MsgTelegram(ch, d.cmd, ml.val, pl.val)))
             /\ pc' = "send_ctl_reply"
             /\ ret' = ret
        ELSE /\ ret' = Err("IO")
             /\ pc' = "done"
             /\ wire' = wire
  /\ UNCHANGED <<xferid, rcv, peer, loop, authVars, link, node>>

\* sendrecv's wait for the reply to the Msg request, and the XferId extraction
SendCtlReply(in) ==
  /\ op = "send" /\ pc = "send_ctl_reply"
  /\ wire' = Append(wire, Read("ctl", in))
  /\ LET r == ExpectOkFail(in)
     IN IF ~IsOk(r)
        THEN /\ ret' = r
             /\ pc' = "done"
             /\ xferid' = xferid
        ELSE IF XferIdOf(r.val) = None
        THEN /\ ret' = Err("MissingData")
             /\ pc' = "done"
             /\ xferid' = xferid
        ELSE /\ xferid' = XferIdOf(r.val)
             /\ pc' = PcAfterCtl(mi)
             /\ ret' = (IF PcAfterCtl(mi) = "done"
                        THEN Ok(ReturnedId(XferIdOf(r.val), NoParams))
                        ELSE ret)
  /\ UNCHANGED <<op, mi, rcv, peer, loop, authVars, link, node>>

\* send_content for the metadata
SendMeta(wok) ==
  /\ op = "send" /\ pc = "send_meta"
  /\ IF wok
     THEN /\ wire' = Append(wire, WriteContent("meta", mi.meta))
          /\ pc' = PcAfterMetaWrite(mi)
          /\ ret' = ret
     ELSE /\ ret' = Err("IO")
          /\ pc' = "done"
          /\ wire' = wire
  /\ UNCHANGED <<op, mi, xferid, rcv, peer, loop, authVars, link, node>>

\* expect_okfail for the metadata
SendMetaAck(in) ==
  /\ op = "send" /\ pc = "send_meta_ack"
  /\ wire' = Append(wire, Read("meta", in))
  /\ LET r == ExpectOkFail(in)
     IN IF ~Acked(r)
        THEN /\ ret' = r
             /\ pc' = "done"
        ELSE /\ pc' = PcAfterMeta(mi)
             /\ ret' = (IF PcAfterMeta(mi) = "done"
                        THEN Ok(ReturnedId(xferid, IF IsOk(r) THEN r.val ELSE NoParams))
                        ELSE ret)
  /\ UNCHANGED <<op, mi, xferid, rcv, peer, loop, authVars, link, node>>

\* send_content for the payload
SendPayload(wok) ==
  /\ op = "send" /\ pc = "send_payload"
  /\ IF wok
     THEN /\ wire' = Append(wire, WriteContent("payload", mi.payload))
          /\ pc' = "send_payload_ack"
          /\ ret' = ret
     ELSE /\ ret' = Err("IO")
          /\ pc' = "done"
          /\ wire' = wire
  /\ UNCHANGED <<op, mi, xferid, rcv, peer, loop, authVars, link, node>>

\* expect_okfail for the payload, and the return of the transfer identifier
SendPayloadAck(in) ==
  /\ op = "send" /\ pc = "send_payload_ack"
  /\ wire' = Append(wire, Read("payload", in))
  /\ LET r == ExpectOkFail(in)
     IN IF ~Acked(r)
        THEN ret' = r
        ELSE ret' = Ok(ReturnedId(xferid, IF IsOk(r) THEN r.val ELSE NoParams))
  /\ pc' = "done"
  /\ UNCHANGED <<op, mi, xferid, rcv, peer, loop, authVars, link, node>>

SendNext ==
  \/ \E d \in Descriptors, ch \in Channels, wok \in BOOLEAN : SendCall(d, ch, wok)
  \/ \E in \in Replies : SendCtlReply(in)
  \/ \E wok \in BOOLEAN : SendMeta(wok)
  \/ \E in \in Replies : SendMetaAck(in)
  \/ \E wok \in BOOLEAN : SendPayload(wok)
  \/ \E in \in Replies : SendPayloadAck(in)

-----------------------------------------------------------------------------
(* msg/recv.rs: recv, proc_inbound_msg, get_content *)

\* StoreType values the storeq callback may request
StoreType(kind, path) == [kind |-> kind, path |-> path]

StoreTypes ==
  {StoreType(k, "") : k \in {"None", "Bytes", "BytesMut", "Params", "KVLines"}}
    \cup {StoreType("File", "msg.dat")}

\* What the storeq callback may return: an error, or a pair of StoreTypes
StoreqResults == {Err("BadInput")} \cup {Ok(<<ms, ps>>) : ms \in StoreTypes, ps \in StoreTypes}

\* Values the peer may put in a numeric field of the Msg telegram; -1 stands for
\* text that does not parse as an unsigned number.
Unparsable == -1

FieldValues(k) ==
  IF k = "Cmd" THEN {7, Unparsable}
  ELSE IF k = "MetaLen" THEN {0, MetaBytes, Unparsable}
  ELSE {0, PayloadBytes}

MsgParams ==
  {NoParams} \cup
  UNION {
    LET F == [ks -> {7, 0, MetaBytes, PayloadBytes, Unparsable}]
    IN {f \in F : \A k \in ks : f[k] \in FieldValues(k)}
    : ks \in (SUBSET {"Cmd", "MetaLen", "Len"}) \ {{}}}

\* What the first read of recv can produce
InFrames ==
  {Telegram(Some("Msg"), p) : p \in MsgParams}
    \cup {Telegram(Some("Fail"), p) : p \in FailParams}
    \cup {Telegram(Some("Ok"), NoParams), Telegram(None, NoParams)}
    \cup {[t |-> "Bytes"], Closed, CodecError}

\* Params::get_param::<u32> / ::<u64>: the parse fails on anything but an
\* unsigned number
GetParam(p, k) == IF p[k] >= 0 THEN Ok(p[k]) ELSE Err("Blather")

FieldOrZero_AbsentIsOne(p, k) == IF Have(p, k) THEN GetParam(p, k) ELSE Ok(1)

\* `if mp.have(k) { mp.get_param(k)? } else { 0 }`
FieldOrZero(p, k) == IF Have(p, k) THEN GetParam(p, k) ELSE Ok(0)

NeedsStoreq_Always(metalen, payloadlen) == TRUE

\* `if metalen != 0 || payloadlen != 0`: the storeq callback is consulted
NeedsStoreq(metalen, payloadlen) == metalen # 0 \/ payloadlen # 0

NoRcv ==
  [metalen |-> 0, payloadlen |-> 0, cmd |-> 0,
   meta_store |-> None, payload_store |-> None,
   meta |-> None, payload |-> None, codec |-> None]

\* `let ms = if metalen != 0 { Some(ms) } else { None };`
MetaStoreOf(metalen, payloadlen, ms) == IF metalen # 0 THEN Some(ms) ELSE None

\* `let ps = if metalen != 0 { Some(ps) } else { None };`
PayloadStoreOf(metalen, payloadlen, ps) == IF metalen # 0 THEN Some(ps) ELSE None

\* The codec call proc_inbound_msg makes for a StoreType
CodecRequest(store, len) ==
  IF store.kind = "None" THEN [mode |-> "Skip", len |-> len, path |-> ""]
  ELSE IF store.kind \in {"Params", "KVLines"} THEN [mode |-> store.kind, len |-> 0, path |-> ""]
  ELSE [mode |-> store.kind, len |-> len, path |-> store.path]

\* skip, expect_bytes, expect_bytesmut and expect_file return a Result;
\* expect_params and expect_kvlines cannot fail
ConfigFails(cfg, cok) == ~cok /\ cfg.mode \notin {"Params", "KVLines"}

\* A call that configures the codec for the content of a section
CodecEv(sec, cfg) == [ev |-> "codec", sec |-> sec, cfg |-> cfg]

\* An invocation of the storeq callback, with what it returned
StoreqEv(info, res) == [ev |-> "storeq", sec |-> "ctl", info |-> info, res |-> res]

\* The frame the codec yields once the content it was configured for is in
CodecInput(cfg) ==
  IF cfg.mode = "Skip" THEN [t |-> "SkipDone"]
  ELSE IF cfg.mode \in {"Bytes", "BytesMut"} THEN [t |-> cfg.mode, len |-> cfg.len]
  ELSE IF cfg.mode = "File" THEN [t |-> "File", path |-> cfg.path]
  ELSE [t |-> cfg.mode]

\* What a read can produce while the codec is configured for content
ContentInputs(cfg) == {CodecInput(cfg), Closed, CodecError}

GetContent_LocalFile(in) ==
  IF in = Closed THEN Err("Disconnected")
  ELSE IF in = CodecError THEN Err("Blather")
  ELSE IF in.t = "SkipDone" THEN Ok(None)
  ELSE IF in.t = "File" THEN Ok(Some([t |-> "LocalFile", path |-> in.path]))
  ELSE IF in.t \in {"Bytes", "BytesMut", "Params", "KVLines"} THEN Ok(Some(in))
  ELSE Err("BadState")

\* get_content: the Option<Storage> for an incoming frame
GetContent(in) ==
  IF in = Closed THEN Err("Disconnected")
  ELSE IF in = CodecError THEN Err("Blather")
  ELSE IF in.t = "SkipDone" THEN Ok(None)
  ELSE IF in.t \in {"Bytes", "BytesMut", "Params", "KVLines", "File"} THEN Ok(Some(in))
  ELSE Err("BadState")

MsgOf(r) == [cmd |-> r.cmd, meta |-> r.meta, payload |-> r.payload]

\* proc_inbound_msg from `let payload = ...` to its next await or its return
PayloadPhase(r, w, cok) ==
  IF IsSome(r.payload_store)
  THEN LET cfg == CodecRequest(Unwrap(r.payload_store), r.payloadlen)
           w2 == Append(w, CodecEv("payload", cfg))
       IN IF ConfigFails(cfg, cok)
          THEN [pc |-> "ret", rcv |-> r, wire |-> w2, ret |-> Err("Blather")]
          ELSE [pc |-> "recv_payload", rcv |-> [r EXCEPT !.codec = Some(cfg)],
                wire |-> w2, ret |-> Pending]
  ELSE [pc |-> "ret", rcv |-> r, wire |-> w, ret |-> Ok(MsgOf(r))]

MetaPhase_PayloadFirst(r, w, cok) == PayloadPhase(r, w, cok)

\* proc_inbound_msg from `let meta = ...` to its next await or its return
MetaPhase(r, w, cok) ==
  IF IsSome(r.meta_store)
  THEN LET cfg == CodecRequest(Unwrap(r.meta_store), r.metalen)
           w2 == Append(w, CodecEv("meta", cfg))
       IN IF ConfigFails(cfg, cok)
          THEN [pc |-> "ret", rcv |-> r, wire |-> w2, ret |-> Err("Blather")]
          ELSE [pc |-> "recv_meta", rcv |-> [r EXCEPT !.codec = Some(cfg)],
                wire |-> w2, ret |-> Pending]
  ELSE PayloadPhase(r, w, cok)

\* proc_inbound_msg from its start to its first await or its return
ProcInboundMsg(mp, w, sq, cok) ==
  LET ml == FieldOrZero(mp, "MetaLen")
      pl == FieldOrZero(mp, "Len")
      cm == FieldOrZero(mp, "Cmd")
      bad == [pc |-> "ret", rcv |-> NoRcv, wire |-> w, ret |-> Err("Blather")]
  IN IF IsErr(ml) \/ IsErr(pl) \/ IsErr(cm) THEN bad
     ELSE LET r0 == [NoRcv EXCEPT !.metalen = ml.val, !.payloadlen = pl.val, !.cmd = cm.val]
          IN IF NeedsStoreq(ml.val, pl.val)
             THEN LET info == [cmd |-> cm.val, metalen |-> ml.val, payloadlen |-> pl.val]
                      w1 == Append(w, StoreqEv(info, sq))
                  IN IF IsErr(sq)
                     THEN [pc |-> "ret", rcv |-> r0, wire |-> w1, ret |-> sq]
                     ELSE MetaPhase(
                            [r0 EXCEPT
                               !.meta_store = MetaStoreOf(ml.val, pl.val, sq.val[1]),
                               !.payload_store = PayloadStoreOf(ml.val, pl.val, sq.val[2])],
                            w1, cok)
             ELSE MetaPhase(r0, w, cok)

RecvFirst_FailIsBadState(in, w, sq, cok) ==
  LET fail(e) == [pc |-> "ret", rcv |-> NoRcv, wire |-> w, ret |-> e]
  IN IF in = Closed THEN fail(Err("Disconnected"))
     ELSE IF in = CodecError THEN fail(Err("Blather"))
     ELSE IF in.t # "Telegram" THEN fail(Err("BadState"))
     ELSE IF in.topic = Some("Msg") THEN ProcInboundMsg(in.params, w, sq, cok)
     ELSE fail(Err("BadState"))

\* recv's classification of the first frame
RecvFirst(in, w, sq, cok) ==
  LET fail(e) == [pc |-> "ret", rcv |-> NoRcv, wire |-> w, ret |-> e]
  IN IF in = Closed THEN fail(Err("Disconnected"))
     ELSE IF in = CodecError THEN fail(Err("Blather"))
     ELSE IF in.t # "Telegram" THEN fail(Err("BadState"))
     ELSE IF in.topic = Some("Msg") THEN ProcInboundMsg(in.params, w, sq, cok)
     ELSE IF in.topic = Some("Fail") THEN fail(ServerError(in.params))
     ELSE fail(Err("BadState"))

\* The sections the peer streams after a Msg telegram it sent
PeerSections(in) ==
  IF in \in {Closed, CodecError} \/ in.t # "Telegram" \/ in.topic # Some("Msg") THEN <<>>
  ELSE (IF Have(in.params, "MetaLen") /\ in.params["MetaLen"] > 0 THEN <<"meta">> ELSE <<>>)
         \o (IF Have(in.params, "Len") /\ in.params["Len"] > 0 THEN <<"payload">> ELSE <<>>)

IsLoop == op \in {"recvloop", "recvloop_a"}

InRecv == op = "recv" \/ IsLoop

IsMsgFrame(in) == in \notin {Closed, CodecError} /\ in.t = "Telegram" /\ in.topic = Some("Msg")

\* Frames and callback results fed to a reception loop
LoopFrames ==
  {Telegram(Some("Msg"), p) :
     p \in {NoParams, "MetaLen" :> MetaBytes, "Len" :> PayloadBytes,
            ("MetaLen" :> MetaBytes) @@ ("Len" :> PayloadBytes)}}
    \cup {Telegram(Some("Fail"), NoParams), Closed}

LoopStoreqResults ==
  {Err("BadInput"),
   Ok(<<StoreType("Bytes", ""), StoreType("Bytes", "")>>),
   Ok(<<StoreType("None", ""), StoreType("File", "msg.dat")>>)}

\* The first frame and the callback result a step of recv may be given
CtlInputOk(in, sq) ==
  IF IsLoop
  THEN /\ in \in LoopFrames
       /\ sq \in LoopStoreqResults
       /\ IsMsgFrame(in) => loop.started < MaxMsgs
  ELSE in \in InFrames /\ sq \in StoreqResults

Deliver_SwallowErrors(st) ==
  /\ rcv' = st.rcv
  /\ wire' = st.wire
  /\ IF st.pc # "ret" THEN pc' = st.pc /\ ret' = ret
     ELSE IF op = "recv" THEN pc' = "done" /\ ret' = st.ret
     ELSE IF IsErr(st.ret) THEN pc' = "recv_ctl" /\ ret' = ret
     ELSE pc' = "procmsg" /\ ret' = ret

\* A step of recv hands its outcome to its caller: the application (recv), or
\* the body of the select! branch (recvloop, recvloop_a)
Deliver(st) ==
  /\ rcv' = st.rcv
  /\ wire' = st.wire
  /\ IF st.pc # "ret" THEN pc' = st.pc /\ ret' = ret
     ELSE IF op = "recv" \/ IsErr(st.ret) THEN pc' = "done" /\ ret' = st.ret
     ELSE pc' = "procmsg" /\ ret' = ret

\* recv is called; it awaits the first frame
RecvCall ==
  /\ op = "idle"
  /\ op' = "recv"
  /\ pc' = "recv_ctl"
  /\ UNCHANGED <<wire, ret, mi, xferid, rcv, peer, loop, authVars, link, node>>

\* `conn.next().await` in recv, up to the next await of proc_inbound_msg
RecvCtl(in, sq, cok) ==
  /\ InRecv /\ pc = "recv_ctl"
  /\ CtlInputOk(in, sq)
  /\ peer' = PeerSections(in)
  /\ loop' = (IF IsLoop /\ IsMsgFrame(in) THEN [loop EXCEPT !.started = @ + 1] ELSE loop)
  /\ Deliver(RecvFirst(in, Append(wire, Read("ctl", in)), sq, cok))
  /\ UNCHANGED <<op, mi, xferid, authVars, link, node>>

\* get_content for the metadata, up to the next await
RecvMeta(in, cok) ==
  /\ InRecv /\ pc = "recv_meta"
  /\ in \in ContentInputs(Unwrap(rcv.codec))
  /\ peer' = (IF peer # <<>> THEN Tail(peer) ELSE peer)
  /\ LET w == Append(wire, Read("meta", in))
         c == GetContent(in)
         r == [rcv EXCEPT !.codec = None]
     IN IF IsErr(c)
        THEN Deliver([pc |-> "ret", rcv |-> r, wire |-> w, ret |-> c])
        ELSE Deliver(PayloadPhase([r EXCEPT !.meta = c.val], w, cok))
  /\ UNCHANGED <<op, mi, xferid, loop, authVars, link, node>>

\* get_content for the payload, and the return of the Msg
RecvPayload(in) ==
  /\ InRecv /\ pc = "recv_payload"
  /\ in \in ContentInputs(Unwrap(rcv.codec))
  /\ peer' = (IF peer # <<>> THEN Tail(peer) ELSE peer)
  /\ LET w == Append(wire, Read("payload", in))
         c == GetContent(in)
         r == [rcv EXCEPT !.codec = None]
     IN IF IsErr(c)
        THEN Deliver([pc |-> "ret", rcv |-> r, wire |-> w, ret |-> c])
        ELSE Deliver([pc |-> "ret", rcv |-> [r EXCEPT !.payload = c.val], wire |-> w,
                      ret |-> Ok(MsgOf([r EXCEPT !.payload = c.val]))])
  /\ UNCHANGED <<op, mi, xferid, loop, authVars, link, node>>

AllContentInputs ==
  UNION {ContentInputs(CodecRequest(s, n)) : s \in StoreTypes, n \in {0, MetaBytes, PayloadBytes}}

RecvNext ==
  \/ RecvCall
  \/ \E in \in InFrames \cup LoopFrames, sq \in StoreqResults \cup LoopStoreqResults, cok \in BOOLEAN :
       RecvCtl(in, sq, cok)
  \/ \E in \in AllContentInputs, cok \in BOOLEAN : RecvMeta(in, cok)
  \/ \E in \in AllContentInputs : RecvPayload(in)

-----------------------------------------------------------------------------
(* msg/recv.rs: recvloop, recvloop_a *)

NoLoop == [kill |-> "none", started |-> 0, procmsg |-> 0]

\* What the procmsg callback may return
ProcMsgResults == {Ok("unit"), Err("BadParams")}

\* The awaits of the recv future at which select! finds it pending
SelectPoints == {"recv_ctl", "recv_meta", "recv_payload"}

\* recvloop or recvloop_a is called, with or without a kill switch; its first
\* iteration awaits recv
LoopCall(variant, haskill) ==
  /\ op = "idle"
  /\ op' = variant
  /\ pc' = "recv_ctl"
  /\ loop' = [NoLoop EXCEPT !.kill = IF haskill THEN "armed" ELSE "none"]
  /\ UNCHANGED <<wire, ret, mi, xferid, rcv, peer, authVars, link, node>>

\* The application triggers the kill switch
KillFire ==
  /\ IsLoop /\ pc # "done"
  /\ loop.kill = "armed"
  /\ loop' = [loop EXCEPT !.kill = "fired"]
  /\ UNCHANGED <<op, pc, wire, ret, mi, xferid, rcv, peer, authVars, link, node>>

KillPoints_Never(variant) == {}

KillPoints_CallbackRaced(variant) ==
  IF variant = "recvloop_a" THEN SelectPoints \cup {"procmsg"} ELSE SelectPoints

\* The awaits at which the kill branch of select! can be taken: those of the
\* recv future; the body of the recv branch (`procmsg(msg)?` in recvloop,
\* `procmsg(msg).await?` in recvloop_a) runs after select! has chosen
KillPoints(variant) == SelectPoints

AfterProcMsg_AsyncDropsError(variant, pres) ==
  IF IsOk(pres) \/ variant = "recvloop_a"
  THEN [pc |-> "recv_ctl", ret |-> Pending]
  ELSE [pc |-> "done", ret |-> pres]

\* `procmsg(msg)?` (recvloop), `procmsg(msg).await?` (recvloop_a): an error
\* of the callback is returned, otherwise the loop goes round
AfterProcMsg(variant, pres) ==
  IF IsOk(pres)
  THEN [pc |-> "recv_ctl", ret |-> Pending]
  ELSE [pc |-> "done", ret |-> pres]

KillReady_Always == TRUE

\* `kill.wait()` completes: a kill switch was supplied and has been triggered
KillReady == loop.kill = "fired"

KillExit_Error == Err("Disconnected")

\* `break` out of the loop, then `Ok(())`
KillExit == Ok("unit")

\* select!: `_ = kill.wait() => break`, then `Ok(())`; the recv future is
\* dropped wherever it is suspended
LoopKillBranch ==
  /\ IsLoop /\ pc \in KillPoints(op)
  /\ KillReady
  /\ pc' = "done"
  /\ ret' = KillExit
  /\ UNCHANGED <<op, wire, mi, xferid, rcv, peer, loop, authVars, link, node>>

\* `procmsg(msg)?` (recvloop) / `procmsg(msg).await?` (recvloop_a), and the
\* start of the next iteration
LoopProcMsg(pres) ==
  /\ IsLoop /\ pc = "procmsg"
  /\ loop' = [loop EXCEPT !.procmsg = IF @ < MaxMsgs THEN @ + 1 ELSE @]
  /\ LET a == AfterProcMsg(op, pres)
     IN /\ pc' = a.pc
        /\ IF a.pc = "recv_ctl"
           THEN /\ rcv' = NoRcv
                /\ wire' = <<>>
                /\ ret' = ret
           ELSE /\ ret' = a.ret
                /\ UNCHANGED <<rcv, wire>>
  /\ UNCHANGED <<op, mi, xferid, peer, authVars, link, node>>

\* A loop that has started MaxMsgs messages reads the control frame of one
\* more: the peer goes on sending, and the counters of the loop stay at
\* MaxMsgs
RecvCtlMore(in, sq, cok) ==
  /\ IsLoop /\ pc = "recv_ctl"
  /\ loop.started = MaxMsgs
  /\ in \in LoopFrames /\ IsMsgFrame(in)
  /\ sq \in LoopStoreqResults
  /\ peer' = PeerSections(in)
  /\ Deliver(RecvFirst(in, Append(wire, Read("ctl", in)), sq, cok))
  /\ UNCHANGED <<op, mi, xferid, loop, authVars, link, node>>

LoopNext ==
  \/ \E v \in {"recvloop", "recvloop_a"}, k \in BOOLEAN : LoopCall(v, k)
  \/ KillFire
  \/ LoopKillBranch
  \/ \E pres \in ProcMsgResults : LoopProcMsg(pres)

-----------------------------------------------------------------------------
(* auth.rs, utils.rs: credentials, their files, and authenticate *)

\* Auth contexts the application may hold
Creds ==
  [name : {None, Some("alice")},
   pass_file : {None, Some("pass.txt")},
   pass : {None, Some("pw")},
   token_file : {None, Some("tkn.txt")},
   token : {None, Some("T0")}]

NoCred == [name |-> None, pass_file |-> None, pass |-> None, token_file |-> None, token |-> None]

\* A file is None when it does not exist, else Some(its first line, without the
\* line terminator); Some("") is a file without any line.
TokenFiles == {None, Some(""), Some("T1"), Some("T1 ")}

PassFiles == {None, Some(""), Some("pw2"), Some("pw2 ")}

FileSystems == [token_file : TokenFiles, pass_file : PassFiles]

NoFiles == [token_file |-> None, pass_file |-> None]

\* The files an Auth context can meet: a field that names no file has none
FilesFor(c) ==
  {f \in FileSystems :
     /\ c.token_file = None => f.token_file = None
     /\ c.pass_file = None => f.pass_file = None}

\* A file system operation on the file a field of Auth names
FsOp(what, field) == [op |-> what, file |-> field]

\* str::trim_end on the strings of the model
TrimEnd(str) == IF str = "T1 " THEN "T1" ELSE IF str = "pw2 " THEN "pw2" ELSE str

\* utils::read_single_line: None if the file cannot be opened or has no line
ReadSingleLine(file) ==
  IF file = None THEN None
  ELSE IF Unwrap(file) = "" THEN None
  ELSE Some(TrimEnd(Unwrap(file)))

\* Path::exists
Exists(file) == file # None

\* The result of a credential lookup and the file operations it made
Lookup(res, ops) == [res |-> res, ops |-> ops]

GetPass_FileFirst(c, f) ==
  IF IsSome(c.pass_file) /\ IsSome(ReadSingleLine(f.pass_file))
  THEN Lookup(Ok(Unwrap(ReadSingleLine(f.pass_file))), <<FsOp("read", "pass_file")>>)
  ELSE IF IsSome(c.pass) THEN Lookup(Ok(Unwrap(c.pass)), <<>>)
  ELSE Lookup(Err("InvalidCredentials"), <<>>)

\* Auth::get_pass
GetPass(c, f) ==
  IF IsSome(c.pass) THEN Lookup(Ok(Unwrap(c.pass)), <<>>)
  ELSE IF IsSome(c.pass_file)
  THEN LET line == ReadSingleLine(f.pass_file)
           ops == <<FsOp("read", "pass_file")>>
       IN IF IsSome(line) THEN Lookup(Ok(Unwrap(line)), ops)
          ELSE Lookup(Err("InvalidCredentials"), ops)
  ELSE Lookup(Err("InvalidCredentials"), <<>>)

GetToken_AbsentIsIo(c, f) ==
  IF IsSome(c.token) THEN Lookup(Ok(c.token), <<>>)
  ELSE IF IsSome(c.token_file)
  THEN LET line == ReadSingleLine(f.token_file)
           ops == <<FsOp("read", "token_file")>>
       IN IF f.token_file = None THEN Lookup(Err("IO"), ops)
          ELSE IF IsSome(line) THEN Lookup(Ok(line), ops)
          ELSE Lookup(Err("InvalidCredentials"), ops)
  ELSE Lookup(Ok(None), <<>>)

GetToken_FileFirst(c, f) ==
  IF IsSome(c.token_file) /\ IsSome(ReadSingleLine(f.token_file))
  THEN Lookup(Ok(ReadSingleLine(f.token_file)),
              <<FsOp("exists", "token_file"), FsOp("read", "token_file")>>)
  ELSE IF IsSome(c.token) THEN Lookup(Ok(c.token), <<>>)
  ELSE Lookup(Ok(None), <<>>)

GetToken_ReadTwice(c, f) ==
  IF IsSome(c.token) THEN Lookup(Ok(c.token), <<>>)
  ELSE IF IsSome(c.token_file)
  THEN IF Exists(f.token_file)
       THEN LET line == ReadSingleLine(f.token_file)
                ops == <<FsOp("read", "token_file"), FsOp("read", "token_file")>>
            IN IF IsSome(line) THEN Lookup(Ok(line), ops)
               ELSE Lookup(Err("InvalidCredentials"), ops)
       ELSE LET ops == <<FsOp("read", "token_file")>>
            IN IF c.name = None THEN Lookup(Err("InvalidCredentials"), ops)
               ELSE IF c.pass = None /\ c.pass_file = None
               THEN Lookup(Err("InvalidCredentials"), ops)
               ELSE Lookup(Ok(None), ops)
  ELSE Lookup(Ok(None), <<>>)

GetToken_IgnoresFile(c, f) ==
  IF IsSome(c.token) THEN Lookup(Ok(c.token), <<>>)
  ELSE IF IsSome(c.token_file) /\ (c.name = None \/ (c.pass = None /\ c.pass_file = None))
  THEN Lookup(Err("InvalidCredentials"), <<FsOp("exists", "token_file")>>)
  ELSE Lookup(Ok(None), <<>>)

GetToken_EmptyFallsBack(c, f) ==
  IF IsSome(c.token) THEN Lookup(Ok(c.token), <<>>)
  ELSE IF IsSome(c.token_file)
  THEN LET line == IF Exists(f.token_file) THEN ReadSingleLine(f.token_file) ELSE None
           ops == <<FsOp("exists", "token_file")>>
                    \o (IF Exists(f.token_file) THEN <<FsOp("read", "token_file")>> ELSE <<>>)
       IN IF IsSome(line) THEN Lookup(Ok(line), ops)
          ELSE IF c.name = None THEN Lookup(Err("InvalidCredentials"), ops)
          ELSE IF c.pass = None /\ c.pass_file = None
          THEN Lookup(Err("InvalidCredentials"), ops)
          ELSE Lookup(Ok(None), ops)
  ELSE Lookup(Ok(None), <<>>)

\* Auth::get_token
GetToken(c, f) ==
  IF IsSome(c.token) THEN Lookup(Ok(c.token), <<>>)
  ELSE IF IsSome(c.token_file)
  THEN IF Exists(f.token_file)
       THEN LET line == ReadSingleLine(f.token_file)
                ops == <<FsOp("exists", "token_file"), FsOp("read", "token_file")>>
            IN IF IsSome(line) THEN Lookup(Ok(line), ops)
               ELSE Lookup(Err("InvalidCredentials"), ops)
       ELSE LET ops == <<FsOp("exists", "token_file")>>
            IN IF c.name = None THEN Lookup(Err("InvalidCredentials"), ops)
               ELSE IF c.pass = None /\ c.pass_file = None
               THEN Lookup(Err("InvalidCredentials"), ops)
               ELSE Lookup(Ok(None), ops)
  ELSE Lookup(Ok(None), <<>>)

TokenTelegram_WithAccount(tkn) ==
  Telegram(Some("Auth"), AddParam(AddParam(NoParams, "AccName", ""), "Tkn", tkn))

\* The Auth telegram auth::token prepares
TokenTelegram(tkn) == Telegram(Some("Auth"), AddParam(NoParams, "Tkn", tkn))

AccPassTelegram_AlwaysReqTkn(accname, pass, reqtkn) ==
  Telegram(Some("Auth"),
           AddParam(AddParam(AddParam(NoParams, "AccName", accname), "Pass", pass),
                    "ReqTkn", "True"))

\* The Auth telegram auth::accpass prepares
AccPassTelegram(accname, pass, reqtkn) ==
  LET p0 == AddParam(NoParams, "AccName", accname)
      p1 == AddParam(p0, "Pass", pass)
      p2 == IF reqtkn THEN AddParam(p1, "ReqTkn", "True") ELSE p1
  IN Telegram(Some("Auth"), p2)

\* auth::accpass after sendrecv: the token of the reply, if one was requested
AccPassToken_Defaulted(params, reqtkn) ==
  IF reqtkn THEN (IF Have(params, "Tkn") THEN GetStr(params, "Tkn") ELSE Some("")) ELSE None

AccPassToken(params, reqtkn) == IF reqtkn THEN GetStr(params, "Tkn") ELSE None

\* What the server may answer to an Auth request
AuthReplies == Replies \cup {Telegram(Some("Ok"), "Tkn" :> "T9")}

\* Outcomes of `File::create(fname)?` followed by `f.write(tkn.as_bytes())?`:
\* write may fail, or succeed having written only part of the buffer
StoreOutcomes == {"stored", "short_write", "create_fails", "write_fails"}

\* A proper prefix of a token: what a short write leaves in the file
ShortOf(tkn) == IF tkn = "T9" THEN "T" ELSE ""

\* `File::create(fname)?; f.write(tkn.as_bytes())?`: the result, the file
\* afterwards and the file operations made
StoreToken(file, tkn, outcome) ==
  LET both == <<FsOp("create", "token_file"), FsOp("write", "token_file")>>
  IN IF outcome = "create_fails"
     THEN [res |-> Err("IO"), file |-> file, ops |-> <<FsOp("create", "token_file")>>]
     ELSE IF outcome = "write_fails"
     THEN [res |-> Err("IO"), file |-> Some(""), ops |-> both]
     ELSE IF outcome = "short_write"
     THEN [res |-> Ok("unit"), file |-> Some(ShortOf(tkn)), ops |-> both]
     ELSE [res |-> Ok("unit"), file |-> Some(tkn), ops |-> both]

AfterToken_ReturnsReplyToken(r) == IF IsOk(r) THEN Ok(GetStr(r.val, "Tkn")) ELSE r

\* `token(conn, CredStore::Buf(tkn)).await?; return Ok(None);`
AfterToken(r) == IF IsOk(r) THEN Ok(None) ELSE r

MissingCredentials_Ok == Ok(None)

\* `Err(Error::invalid_cred("Missing credentials"))`
MissingCredentials == Err("InvalidCredentials")

-----------------------------------------------------------------------------
(* conn.rs: connect, and the connection a call of authenticate is made on *)

\* link.owner: "none" (no connection), "caller" (the application holds it),
\* "connect" (the local `framed` of connect), "dropped" (closed by drop)
NoLink == [owner |-> "none", calls |-> 0, prior |-> "none"]

\* What is remembered of the authenticate call made before the current one
PriorOf(r) ==
  IF IsOk(r) THEN (IF r.val = None THEN "ok" ELSE "ok_token") ELSE "err"

ConnectResult_IgnoreAuth(r) == Ok("Frm")

\* `auth.authenticate(&mut framed).await?; Ok(framed)`
ConnectResult(r) == IF IsErr(r) THEN r ELSE Ok("Frm")

OwnerAfter_DropOnError(via, r, owner) == IF IsErr(r) THEN "dropped" ELSE "caller"

\* Who holds the connection when authenticate has returned `r`: connect gives
\* it to its caller or drops it with the error; authenticate only borrows it
OwnerAfter(via, r, owner) ==
  IF via = "connect" THEN (IF IsErr(r) THEN "dropped" ELSE "caller") ELSE owner

\* authenticate returns `r` to the application or to connect
Returned(via, r, l) ==
  /\ ret' = (IF via = "connect" THEN ConnectResult(r) ELSE r)
  /\ pc' = "done"
  /\ link' = [l EXCEPT !.owner = OwnerAfter(via, r, l.owner)]

InAuth == op \in {"authenticate", "connect"}

\* authenticate, up to and including the write of its Auth request
AuthStart(via, c, f, wok, l) ==
  /\ cred' = c
  /\ fs' = f
  /\ LET t == GetToken(c, f)
         p == GetPass(c, f)
         fail(e, ops) == Returned(via, e, l) /\ wire' = <<>> /\ fsops' = ops
         request(tg, at, ops) ==
           IF wok
           THEN /\ wire' = <<WriteTg(tg)>>
                /\ pc' = at
                /\ ret' = Pending
                /\ fsops' = ops
                /\ link' = l
           ELSE fail(Err("IO"), ops)
     IN IF IsErr(t.res) THEN fail(t.res, t.ops)
        ELSE IF IsSome(t.res.val)
        THEN request(TokenTelegram(Unwrap(t.res.val)), "auth_token_reply", t.ops)
        ELSE IF IsSome(c.name)
        THEN IF IsErr(p.res) THEN fail(p.res, t.ops \o p.ops)
             ELSE request(AccPassTelegram(Unwrap(c.name), p.res.val, IsSome(c.token_file)),
                          "auth_accpass_reply", t.ops \o p.ops)
        ELSE fail(MissingCredentials, t.ops)

\* The application calls authenticate on a connection it holds
AuthCall(c, f, wok) ==
  /\ op = "idle"
  /\ f \in FilesFor(c)
  /\ op' = "authenticate"
  /\ AuthStart("authenticate", c, f, wok, [NoLink EXCEPT !.owner = "caller", !.calls = 1])
  /\ UNCHANGED <<mi, xferid, rcv, peer, loop, node>>

\* The application calls authenticate again with the same Auth context on the
\* same connection, after the earlier call has returned
AuthAgain(wok) ==
  /\ op = "authenticate" /\ pc = "done"
  /\ link.calls < MaxAuthCalls
  /\ AuthStart("authenticate", cred, fs, wok,
               [link EXCEPT !.calls = @ + 1, !.prior = PriorOf(ret)])
  /\ UNCHANGED <<op, mi, xferid, rcv, peer, loop, node>>

\* connect: the transport is connected, then authenticate runs if an Auth was
\* passed
ConnectCall(tok, a, f, wok) ==
  /\ op = "idle"
  /\ f \in (IF a = None THEN {NoFiles} ELSE FilesFor(Unwrap(a)))
  /\ op' = "connect"
  /\ IF ~tok
     THEN /\ ret' = Err("IO")
          /\ pc' = "done"
          /\ UNCHANGED <<wire, link, cred, fsops>>
          /\ fs' = f
     ELSE IF a = None
     THEN /\ ret' = Ok("Frm")
          /\ pc' = "done"
          /\ link' = [NoLink EXCEPT !.owner = "caller"]
          /\ UNCHANGED <<wire, cred, fsops>>
          /\ fs' = f
     ELSE AuthStart("connect", Unwrap(a), f, wok,
                    [NoLink EXCEPT !.owner = "connect", !.calls = 1])
  /\ UNCHANGED <<mi, xferid, rcv, peer, loop, node>>

\* auth::token: sendrecv's wait for the reply, then `return Ok(None)`
AuthTokenReply(in) ==
  /\ InAuth /\ pc = "auth_token_reply"
  /\ wire' = Append(wire, Read("ctl", in))
  /\ Returned(op, AfterToken(ExpectOkFail(in)), link)
  /\ UNCHANGED <<op, mi, xferid, rcv, peer, loop, authVars, node>>

\* auth::accpass: sendrecv's wait for the reply; then authenticate stores the
\* token it was given in the token file
AuthAccPassReply(in, outcome) ==
  /\ InAuth /\ pc = "auth_accpass_reply"
  /\ wire' = Append(wire, Read("ctl", in))
  /\ LET r == ExpectOkFail(in)
         opttkn == IF IsOk(r) THEN AccPassToken(r.val, IsSome(cred.token_file)) ELSE None
         st == StoreToken(fs.token_file, Unwrap(opttkn), outcome)
     IN IF IsErr(r) THEN Returned(op, r, link) /\ UNCHANGED <<fs, fsops>>
        ELSE IF opttkn = None THEN Returned(op, Ok(None), link) /\ UNCHANGED <<fs, fsops>>
        ELSE IF cred.token_file = None
        THEN Returned(op, Ok(opttkn), link) /\ UNCHANGED <<fs, fsops>>
        ELSE /\ Returned(op, IF IsErr(st.res) THEN st.res ELSE Ok(opttkn), link)
             /\ fs' = [fs EXCEPT !.token_file = st.file]
             /\ fsops' = fsops \o st.ops
  /\ UNCHANGED <<op, mi, xferid, rcv, peer, loop, cred, node>>

AuthNext ==
  \/ \E c \in Creds, f \in FileSystems, wok \in BOOLEAN : AuthCall(c, f, wok)
  \/ \E wok \in BOOLEAN : AuthAgain(wok)
  \/ \E tok \in BOOLEAN, a \in {None} \cup {Some(c) : c \in Creds},
        f \in FileSystems, wok \in BOOLEAN : ConnectCall(tok, a, f, wok)
  \/ \E in \in AuthReplies : AuthTokenReply(in)
  \/ \E in \in AuthReplies, outcome \in StoreOutcomes : AuthAccPassReply(in, outcome)

-----------------------------------------------------------------------------
(* conn.rs: sendrecv *)

\* Requests without parameters that the library sends with sendrecv
Requests == {Telegram(Some("WhoAmI"), NoParams), Telegram(Some("Unauth"), NoParams)}

\* `conn.send(tg).await?`
SendRecvCall(tg, wok) ==
  /\ op = "idle"
  /\ op' = "sendrecv"
  /\ IF wok
     THEN wire' = <<WriteTg(tg)>> /\ pc' = "sendrecv_reply" /\ ret' = ret
     ELSE wire' = wire /\ pc' = "done" /\ ret' = Err("IO")
  /\ UNCHANGED <<mi, xferid, rcv, peer, loop, authVars, link, node>>

\* `expect_okfail(conn).await`
SendRecvReply(in) ==
  /\ op = "sendrecv" /\ pc = "sendrecv_reply"
  /\ wire' = Append(wire, Read("ctl", in))
  /\ ret' = ExpectOkFail(in)
  /\ pc' = "done"
  /\ UNCHANGED <<op, mi, xferid, rcv, peer, loop, authVars, link, node>>

ConnNext ==
  \/ \E tg \in Requests, wok \in BOOLEAN : SendRecvCall(tg, wok)
  \/ \E in \in AuthReplies : SendRecvReply(in)

-----------------------------------------------------------------------------
(* types/node.rs, types/node/ddlnk.rs: Display and FromStr *)

NodeKinds == {"Type", "Protocol", "ProtImpl"}

\* The variants of each enum
Variants(kind) ==
  IF kind = "Type" THEN {"Sender", "Receiver"}
  ELSE IF kind = "Protocol" THEN {"Ethernet", "UDP"}
  ELSE {"Pcap", "Generic"}

\* Strings handed to from_str
NodeStrings ==
  {"sender", "receiver", "ethernet", "udp", "pcap", "generic",
   "", "Sender", "UDP", "Udp", "sender ", "tcp"}

\* impl fmt::Display for Type
TypeDisplay(v) == IF v = "Sender" THEN "sender" ELSE "receiver"

\* impl FromStr for Type
TypeFromStr(str) ==
  IF str = "sender" THEN Ok("Sender")
  ELSE IF str = "receiver" THEN Ok("Receiver")
  ELSE Err("BadInput")

ProtocolDisplay_VariantName(v) == IF v = "Ethernet" THEN "ethernet" ELSE "UDP"

\* impl fmt::Display for Protocol
ProtocolDisplay(v) == IF v = "Ethernet" THEN "ethernet" ELSE "udp"

\* impl FromStr for Protocol
ProtocolFromStr(str) ==
  IF str = "ethernet" THEN Ok("Ethernet")
  ELSE IF str = "udp" THEN Ok("UDP")
  ELSE Err("BadInput")

\* impl fmt::Display for ProtImpl
ProtImplDisplay(v) == IF v = "Pcap" THEN "pcap" ELSE "generic"

\* impl FromStr for ProtImpl
ProtImplFromStr(str) ==
  IF str = "pcap" THEN Ok("Pcap")
  ELSE IF str = "generic" THEN Ok("Generic")
  ELSE Err("BadInput")

\* format!("{}", v) for a value of one of the three enums
Display(kind, v) ==
  IF kind = "Type" THEN TypeDisplay(v)
  ELSE IF kind = "Protocol" THEN ProtocolDisplay(v)
  ELSE ProtImplDisplay(v)

\* str.parse::<T>() for one of the three enums
FromStr(kind, str) ==
  IF kind = "Type" THEN TypeFromStr(str)
  ELSE IF kind = "Protocol" THEN ProtocolFromStr(str)
  ELSE ProtImplFromStr(str)

NoNode == [kind |-> "", val |-> None, text |-> "", parsed |-> Pending]

\* A value is formatted
NodeDisplay(kind, v) ==
  /\ op = "idle"
  /\ v \in Variants(kind)
  /\ op' = "node"
  /\ pc' = "displayed"
  /\ node' = [kind |-> kind, val |-> Some(v), text |-> Display(kind, v), parsed |-> Pending]
  /\ UNCHANGED <<wire, ret, mi, xferid, rcv, peer, loop, authVars, link>>

\* The text a value was formatted to is parsed back
NodeParse ==
  /\ op = "node" /\ pc = "displayed"
  /\ node' = [node EXCEPT !.parsed = FromStr(node.kind, node.text)]
  /\ pc' = "done"
  /\ UNCHANGED <<op, wire, ret, mi, xferid, rcv, peer, loop, authVars, link>>

\* A string from elsewhere is parsed
NodeFromStr(kind, str) ==
  /\ op = "idle"
  /\ op' = "node"
  /\ pc' = "done"
  /\ node' = [kind |-> kind, val |-> None, text |-> str, parsed |-> FromStr(kind, str)]
  /\ UNCHANGED <<wire, ret, mi, xferid, rcv, peer, loop, authVars, link>>

NodeNext ==
  \/ \E kind \in NodeKinds, v \in UNION {Variants(k) : k \in NodeKinds} : NodeDisplay(kind, v)
  \/ NodeParse
  \/ \E kind \in NodeKinds, str \in NodeStrings : NodeFromStr(kind, str)

Init ==
  /\ op = "idle"
  /\ pc = "idle"
  /\ wire = <<>>
  /\ ret = Pending
  /\ mi = NoDescriptor
  /\ xferid = None
  /\ rcv = NoRcv
  /\ peer = <<>>
  /\ loop = NoLoop
  /\ cred = NoCred
  /\ fs = NoFiles
  /\ fsops = <<>>
  /\ link = NoLink
  /\ node = NoNode

Next == SendNext \/ RecvNext \/ LoopNext \/ AuthNext \/ ConnNext \/ NodeNext

Spec == Init /\ [][Next]_vars

\* The peer never runs out of messages for a reception loop
LiveNext ==
  \/ Next
  \/ \E in \in LoopFrames, sq \in LoopStoreqResults, cok \in BOOLEAN : RecvCtlMore(in, sq, cok)

\* select! picks the branch it polls first at random, so a kill branch that is
\* ready again and again is taken in the end; the procmsg callback returns
LiveSpec ==
  /\ Init /\ [][LiveNext]_vars
  /\ SF_vars(LoopKillBranch)
  /\ WF_vars(\E pres \in ProcMsgResults : LoopProcMsg(pres))

-----------------------------------------------------------------------------
(* Vocabulary of the properties *)

Events(ev, sec) == {i \in DOMAIN wire : wire[i].ev = ev /\ wire[i].sec = sec}

ContentWrites == Events("write", "meta") \cup Events("write", "payload")

IsOkTg(in) == in.t = "Telegram" /\ in.topic = {"Ok"}

IsFailTg(in) == in.t = "Telegram" /\ in.topic = {"Fail"}

\* The first frame recv read is a Msg telegram
GotMsg == wire # <<>> /\ wire[1].ev = "read" /\ IsMsgFrame(wire[1].input)

\* The length the peer declared for a section in the Msg telegram (absent: 0)
Declared(sec) ==
  LET p == wire[1].input.params
      k == IF sec = "meta" THEN "MetaLen" ELSE "Len"
  IN IF Have(p, k) THEN p[k] ELSE 0

\* What the storeq callback returned for a section
Requested(sec) ==
  LET i == CHOOSE i \in Events("storeq", "ctl") : TRUE
  IN IF sec = "meta" THEN wire[i].res.val[1] ELSE wire[i].res.val[2]

RecvReturnedMsg == op = "recv" /\ pc = "done" /\ IsOk(ret)

SendDone == op = "send" /\ pc = "done"

-----------------------------------------------------------------------------
(* Inbound reception *)

\* C1: for every Msg recv returns, a section's result is None if and only if
\* the peer declared that section's length as zero.
C1_NoneIffZeroLength ==
  RecvReturnedMsg =>
    /\ (ret.val.meta = None <=> Declared("meta") = 0)
    /\ (ret.val.payload = None <=> Declared("payload") = 0)

\* C2: for every section of non-zero declared length, recv configures the codec
\* as the callback requested for that section, reads exactly one content frame
\* for it, and returns the Storage variant of the requested kind.
C2_NonZeroSectionMaterialized ==
  RecvReturnedMsg =>
    \A sec \in {"meta", "payload"} :
      Declared(sec) # 0 =>
        /\ Cardinality(Events("codec", sec)) = 1
        /\ \A i \in Events("codec", sec) :
             wire[i].cfg = CodecRequest(Requested(sec), Declared(sec))
        /\ Cardinality(Events("read", sec)) = 1
        /\ Requested(sec).kind # "None" =>
             /\ IsSome(ret.val[sec])
             /\ Unwrap(ret.val[sec]).t = Requested(sec).kind

\* C3: a section of zero declared length is skipped whatever the callback
\* returned: the codec is not configured for it, no content frame is read for
\* it, and its result is None.
C3_ZeroSectionSkipped ==
  (op = "recv" /\ GotMsg) =>
    \A sec \in {"meta", "payload"} :
      Declared(sec) = 0 =>
        /\ Events("codec", sec) = {}
        /\ Events("read", sec) = {}
        /\ RecvReturnedMsg => ret.val[sec] = None

\* C4: when a reception loop is ended by its kill switch, every message whose
\* control frame it had read was completed and handed to procmsg.
C4_KillNeverDropsStartedMessage ==
  (IsLoop /\ pc = "done" /\ IsOk(ret)) => loop.procmsg = loop.started

-----------------------------------------------------------------------------
(* Outbound transfer *)

\* C5: if the reply to the metadata content frame is not Ok, send has returned
\* an error and no payload content frame is written.
C5_MetaAckFailureStopsPayload ==
  op = "send" =>
    \A i \in Events("read", "meta") :
      ~IsOkTg(wire[i].input) =>
        /\ pc = "done"
        /\ IsErr(ret)
        /\ Events("write", "payload") = {}

C5_Witness ==
  /\ SendDone
  /\ IsSome(mi.payload)
  /\ \E i \in Events("read", "meta") : IsFailTg(wire[i].input)

\* The phases of a send in their protocol order
PhaseNo(sec) == IF sec = "ctl" THEN 0 ELSE IF sec = "meta" THEN 1 ELSE 2

\* C6: writes and reads of one send alternate, starting with the write of the
\* control request; phases come in the order control, metadata, payload, each
\* at most once; and a frame is written only right after an Ok reply to the
\* previous one.
C6_StrictAlternation ==
  op = "send" =>
    /\ \A i \in DOMAIN wire : (wire[i].ev = "write") <=> (i % 2 = 1)
    /\ \A i \in DOMAIN wire : (wire[i].ev = "read") <=> (i % 2 = 0)
    /\ \A i \in DOMAIN wire :
         i % 2 = 0 => wire[i].sec = wire[i - 1].sec
    /\ \A i, j \in DOMAIN wire :
         (i + 1 < j /\ i % 2 = 1 /\ j % 2 = 1) => PhaseNo(wire[i].sec) < PhaseNo(wire[j].sec)
    /\ \A i \in DOMAIN wire :
         (i > 1 /\ wire[i].ev = "write") => IsOkTg(wire[i - 1].input)
    /\ wire # <<>> => wire[1].sec = "ctl"
    /\ (Events("write", "payload") # {} /\ IsSome(mi.meta)) => Events("read", "meta") # {}

C6_Witness ==
  /\ SendDone /\ IsOk(ret)
  /\ Len(wire) = 6

\* C7: send returns Ok(id) only after an Ok acknowledgement of every section
\* present in the descriptor, and id is the XferId of the control reply.
C7_OkOnlyAfterAllAcks ==
  (op = "send" /\ IsOk(ret)) =>
    /\ IsSome(mi.meta) => \E i \in Events("read", "meta") : IsOkTg(wire[i].input)
    /\ IsSome(mi.payload) => \E i \in Events("read", "payload") : IsOkTg(wire[i].input)
    /\ \E i \in Events("read", "ctl") :
         /\ IsOkTg(wire[i].input)
         /\ Have(wire[i].input.params, "XferId")
         /\ ret.val = wire[i].input.params["XferId"]

C7_Witness ==
  /\ SendDone /\ IsOk(ret)
  /\ IsSome(mi.meta) /\ IsSome(mi.payload)
  /\ \E i \in Events("read", "payload") :
       /\ Have(wire[i].input.params, "XferId")
       /\ wire[i].input.params["XferId"] # ret.val

\* C8: a send whose descriptor has neither metadata nor payload writes one
\* frame, the Msg request, reads one reply, writes no content frame, and
\* returns the XferId of an Ok reply that carries one.
C8_BareMessageOneExchange ==
  (op = "send" /\ mi.meta = None /\ mi.payload = None) =>
    /\ ContentWrites = {}
    /\ Len(wire) <= 2
    /\ wire # <<>> =>
         /\ wire[1].ev = "write"
         /\ wire[1].tg.topic = {"Msg"}
    /\ Len(wire) = 2 =>
         /\ wire[2].ev = "read"
         /\ pc = "done"
         /\ (IsOkTg(wire[2].input) /\ Have(wire[2].input.params, "XferId")) =>
              ret = Ok(wire[2].input.params["XferId"])
    /\ (pc = "done" /\ wire # <<>>) => Len(wire) = 2

C8_Witness ==
  /\ SendDone /\ IsOk(ret)
  /\ mi.meta = None /\ mi.payload = None
  /\ Len(wire) = 2

\* C9: if the reply to the Msg request is Fail, send returns ServerError with
\* the parameters of that reply and writes no content frame.
C9_ControlFailIsServerError ==
  op = "send" =>
    \A i \in Events("read", "ctl") :
      IsFailTg(wire[i].input) =>
        /\ pc = "done"
        /\ ret = ServerError(wire[i].input.params)
        /\ ContentWrites = {}

C9_Witness ==
  /\ SendDone
  /\ IsSome(mi.meta)
  /\ \E i \in Events("read", "ctl") :
       IsFailTg(wire[i].input) /\ wire[i].input.params # NoParams

\* C10: if the control reply is Ok without an XferId, send returns MissingData
\* and writes no content frame.
C10_MissingXferId ==
  op = "send" =>
    \A i \in Events("read", "ctl") :
      (IsOkTg(wire[i].input) /\ ~Have(wire[i].input.params, "XferId")) =>
        /\ pc = "done"
        /\ ret = Err("MissingData")
        /\ ContentWrites = {}

C10_Witness ==
  /\ SendDone
  /\ IsSome(mi.meta) /\ IsSome(mi.payload)
  /\ \E i \in Events("read", "ctl") :
       IsOkTg(wire[i].input) /\ ~Have(wire[i].input.params, "XferId")

\* The length the Msg request of a send declared for a section (absent: 0)
DeclaredOut(sec) ==
  LET p == wire[1].tg.params
      k == IF sec = "meta" THEN "MetaLen" ELSE "Len"
  IN IF Have(p, k) THEN p[k] ELSE 0

\* C11: send writes a content frame and waits for its acknowledgement for a
\* section exactly when the Msg request declared a non-zero length for that
\* section; a section with no declared length is followed by no content frame
\* and no acknowledgement wait.
C11_ContentIffDeclared ==
  (op = "send" /\ wire # <<>>) =>
    \A sec \in {"meta", "payload"} :
      /\ DeclaredOut(sec) = 0 => (Events("write", sec) = {} /\ Events("read", sec) = {})
      /\ (SendDone /\ IsOk(ret) /\ DeclaredOut(sec) # 0) =>
           (Events("write", sec) # {} /\ Events("read", sec) # {})

-----------------------------------------------------------------------------
(* Inbound reception: the control frame *)

\* The command id the peer declared in the Msg telegram (absent: 0)
DeclaredCmd ==
  LET p == wire[1].input.params
  IN IF Have(p, "Cmd") THEN p["Cmd"] ELSE 0

\* Every numeric field present in the Msg telegram parses
FieldsParse ==
  \A k \in DOMAIN wire[1].input.params : wire[1].input.params[k] # Unparsable

\* C12: if the Msg telegram declares both lengths as zero or omits both, recv
\* does not invoke the storeq callback, reads no content frame, and returns a
\* Msg whose meta and payload are both None.
C12_BothZeroNoNegotiation ==
  (op = "recv" /\ GotMsg /\ Declared("meta") = 0 /\ Declared("payload") = 0) =>
    /\ Events("storeq", "ctl") = {}
    /\ Len(wire) = 1
    /\ pc = "done"
    /\ FieldsParse => ret = Ok([cmd |-> DeclaredCmd, meta |-> None, payload |-> None])
    /\ IsOk(ret) => (ret.val.meta = None /\ ret.val.payload = None)

C12_Witness ==
  /\ RecvReturnedMsg /\ GotMsg
  /\ Have(wire[1].input.params, "MetaLen")
  /\ Declared("meta") = 0 /\ Declared("payload") = 0

\* C13: if at least one declared length is non-zero, recv invokes the storeq
\* callback exactly once, right after the control frame, with the command id and
\* the two lengths of the Msg telegram (an absent field as 0), and the Msg it
\* returns carries that command id.
C13_NegotiatedOnceWithDeclaredInfo ==
  (op = "recv" /\ GotMsg /\ FieldsParse
     /\ (Declared("meta") # 0 \/ Declared("payload") # 0)) =>
    /\ Events("storeq", "ctl") = {2}
    /\ wire[2].info = [cmd |-> DeclaredCmd, metalen |-> Declared("meta"),
                       payloadlen |-> Declared("payload")]
    /\ RecvReturnedMsg => ret.val.cmd = DeclaredCmd

C13_Witness ==
  /\ RecvReturnedMsg /\ GotMsg
  /\ DOMAIN wire[1].input.params = {"Len"}
  /\ Declared("payload") # 0
  /\ Events("storeq", "ctl") # {}

\* C14: recv classifies the first frame it reads.  A Fail telegram returns
\* ServerError with the parameters of that frame, a telegram of another topic
\* or a non-telegram frame returns BadState, a closed stream returns
\* Disconnected, and in each of these cases the storeq callback is not invoked
\* and nothing more is read; only a Msg telegram starts message processing.
C14_FirstFrameClassified ==
  (op = "recv" /\ wire # <<>>) =>
    LET in == wire[1].input
        stopped(e) == pc = "done" /\ ret = e /\ Len(wire) = 1
    IN /\ wire[1].ev = "read"
       /\ in = Closed => stopped(Err("Disconnected"))
       /\ (in # Closed /\ in # CodecError /\ in.t # "Telegram") => stopped(Err("BadState"))
       /\ (in # Closed /\ in # CodecError /\ in.t = "Telegram") =>
            /\ in.topic = Some("Fail") => stopped(ServerError(in.params))
            /\ in.topic \notin {Some("Msg"), Some("Fail")} => stopped(Err("BadState"))
            /\ in.topic = Some("Msg") =>
                 ~(Len(wire) = 1 /\ IsErr(ret)
                     /\ ret.err \in {"BadState", "ServerError", "Disconnected"})
       /\ ~IsMsgFrame(in) => (Events("storeq", "ctl") = {} /\ Len(wire) = 1 /\ pc = "done")

C14_Witness ==
  /\ op = "recv" /\ pc = "done" /\ Len(wire) = 1
  /\ wire[1].input # Closed /\ wire[1].input # CodecError
  /\ IsFailTg(wire[1].input)
  /\ wire[1].input.params # NoParams

\* The Storage variants get_content builds
ReturnableStorage == {"Bytes", "BytesMut", "Params", "KVLines", "File"}

-----------------------------------------------------------------------------
(* Reception loops *)

\* C16 as stated: once the kill switch has fired while the loop is between
\* messages, the only thing the loop does is exit with Ok(()); it takes no
\* control frame and does not invoke procmsg again.
C16_KillBetweenMessagesExits ==
  [][(IsLoop /\ pc = "recv_ctl" /\ loop.kill = "fired") =>
       (pc' = "done" /\ ret' = Ok("unit") /\ wire' = wire /\ loop' = loop)]_vars

\* C16, amended: once the kill switch has fired while the loop is between
\* messages, the kill branch of select! is ready and races the recv branch.
\* Either the loop exits with Ok(()) without reading a frame and without
\* invoking procmsg, or recv takes the first frame of a next message.
C16_KillBetweenMessagesRaces ==
  /\ []((IsLoop /\ pc = "recv_ctl" /\ loop.kill = "fired") => ENABLED LoopKillBranch)
  /\ [][(IsLoop /\ pc = "recv_ctl" /\ loop.kill = "fired") =>
          \/ (pc' = "done" /\ ret' = Ok("unit") /\ wire' = wire /\ loop' = loop)
          \/ (wire = <<>> /\ wire' # <<>> /\ wire'[1].ev = "read" /\ wire'[1].sec = "ctl")]_vars

C16_Witness ==
  /\ IsLoop /\ pc = "done" /\ ret = Ok("unit")
  /\ loop.kill = "fired"
  /\ wire = <<>>
  /\ loop.procmsg = 1 /\ loop.started = 1

\* C17: a reception loop returns Ok(()) only if a kill switch was supplied and
\* has fired; without a kill switch it ends only with an error, and a closed
\* connection ends it with Err(Disconnected).
C17_OkOnlyByKill ==
  IsLoop =>
    /\ (pc = "done" /\ IsOk(ret)) => loop.kill = "fired"
    /\ (pc = "done" /\ loop.kill = "none") => IsErr(ret)
    /\ (wire # <<>> /\ wire[Len(wire)].ev = "read" /\ wire[Len(wire)].input = Closed) =>
         (pc = "done" /\ ret = Err("Disconnected"))

C17_Witness ==
  /\ IsLoop /\ pc = "done" /\ loop.kill = "none"
  /\ ret = Err("Disconnected")
  /\ loop.procmsg >= 1

\* C18: the first error of recv or of procmsg ends the loop at once: the loop
\* returns that error, and after it has returned it reads no frame and does
\* not invoke procmsg.
C18_FirstErrorPropagates ==
  /\ [](IsLoop =>
         /\ wire # <<>> =>
              LET e == wire[Len(wire)]
              IN /\ (e.ev = "read" /\ e.input = Closed) =>
                      (pc = "done" /\ ret = Err("Disconnected"))
                 /\ (e.ev = "read" /\ e.input = CodecError) =>
                      (pc = "done" /\ ret = Err("Blather"))
                 /\ (e.ev = "read" /\ e.sec = "ctl" /\ e.input # Closed /\ IsFailTg(e.input)) =>
                      (pc = "done" /\ ret = ServerError(e.input.params))
                 /\ (e.ev = "storeq" /\ IsErr(e.res)) => (pc = "done" /\ ret = e.res)
         /\ (pc = "done" /\ IsErr(ret)) => loop.procmsg <= loop.started)
  /\ [][(IsLoop /\ pc = "procmsg" /\ pc' = "done") =>
          (IsErr(ret') /\ ret' \in ProcMsgResults /\ wire' = wire)]_vars
  /\ [][(IsLoop /\ pc = "done") => UNCHANGED <<pc, ret, wire, loop>>]_vars

C18_Witness ==
  /\ IsLoop /\ pc = "done"
  /\ ret = Err("Disconnected")
  /\ loop.started = 2 /\ loop.procmsg = 1
  /\ wire # <<>> /\ wire[Len(wire)].sec = "meta"

-----------------------------------------------------------------------------
(* Authentication *)

AuthDone == op = "authenticate" /\ pc = "done"

\* C19: one authenticate call writes at most one Auth request, which carries
\* either Tkn or AccName and Pass, never both; and if the request carried a
\* token and the reply is not Ok, authenticate has returned the error (the
\* ServerError of a Fail reply) without writing a second request.
C19_OneCredentialPath ==
  op = "authenticate" =>
    /\ Cardinality(Events("write", "ctl")) <= 1
    /\ \A i \in Events("write", "ctl") :
         LET p == wire[i].tg.params
         IN /\ i = 1
            /\ wire[i].tg.topic = {"Auth"}
            /\ \/ (Have(p, "Tkn") /\ ~Have(p, "AccName") /\ ~Have(p, "Pass"))
               \/ (~Have(p, "Tkn") /\ Have(p, "AccName") /\ Have(p, "Pass"))
    /\ (Len(wire) >= 2 /\ Have(wire[1].tg.params, "Tkn") /\ ~IsOkTg(wire[2].input)) =>
         /\ pc = "done"
         /\ IsErr(ret)
         /\ IsFailTg(wire[2].input) => ret = ServerError(wire[2].input.params)
         /\ Len(wire) = 2

C19_Witness ==
  /\ AuthDone
  /\ cred.token = None /\ IsSome(cred.token_file)
  /\ IsSome(cred.name) /\ IsSome(cred.pass)
  /\ Len(wire) = 2
  /\ Have(wire[1].tg.params, "Tkn")
  /\ IsFailTg(wire[2].input)

\* C20: when the Auth context has an inline token, the Auth request carries
\* exactly that token as Tkn and nothing else, and the token file is neither
\* tested for existence nor opened, whatever the other fields are.
C20_InlineTokenExclusive ==
  (op = "authenticate" /\ IsSome(cred.token)) =>
    /\ \A i \in DOMAIN fsops : fsops[i].file # "token_file"
    /\ wire # <<>> =>
         /\ wire[1].ev = "write"
         /\ wire[1].tg.topic = {"Auth"}
         /\ wire[1].tg.params = ("Tkn" :> Unwrap(cred.token))
    /\ (pc = "done" /\ wire = <<>>) => ret = Err("IO")

C20_Witness ==
  /\ AuthDone /\ IsOk(ret)
  /\ IsSome(cred.token) /\ IsSome(cred.token_file)
  /\ IsSome(cred.name) /\ IsSome(cred.pass_file)
  /\ fs.token_file = {"T1"}
  /\ Len(wire) = 2

\* The token file is not there, and an Auth context that names it has no
\* inline token
TokenFileMissing == cred.token = None /\ IsSome(cred.token_file) /\ fs.token_file = None

\* C21: with no inline token, a token-file path whose file does not exist, and
\* no account name or no passphrase (inline or file) configured, authenticate
\* has failed with InvalidCredentials and has written no frame.
C21_MissingTokenFileNoAccount ==
  (op = "authenticate" /\ TokenFileMissing
     /\ (cred.name = None \/ (cred.pass = None /\ cred.pass_file = None))) =>
    /\ pc = "done"
    /\ ret = Err("InvalidCredentials")
    /\ wire = <<>>

C21_Witness ==
  /\ AuthDone /\ TokenFileMissing
  /\ IsSome(cred.name) /\ cred.pass = None /\ cred.pass_file = None
  /\ fsops = <<FsOp("exists", "token_file")>>

\* The call took the account path and the server's Ok reply carries a token
AccountTokenIssued ==
  /\ Len(wire) = 2
  /\ ~Have(wire[1].tg.params, "Tkn")
  /\ IsOkTg(wire[2].input)
  /\ Have(wire[2].input.params, "Tkn")

\* C22: when account authentication with a token-file path succeeds and the
\* server's Ok reply carries Tkn = t, an authenticate that returns Ok returns
\* Some(t) and has left exactly t in the token file; if creating or writing the
\* file failed, authenticate returns that error.
C22_TokenStoredAsIssued ==
  (op = "authenticate" /\ IsSome(cred.token_file) /\ AccountTokenIssued) =>
    LET t == wire[2].input.params["Tkn"]
    IN /\ pc = "done"
       /\ IsOk(ret) => (ret = Ok(Some(t)) /\ fs.token_file = Some(t))
       /\ IsErr(ret) => ret = Err("IO")

\* The call took the token path: its Auth request carries Tkn
TokenPath == wire # <<>> /\ Have(wire[1].tg.params, "Tkn")

\* C23: a token-based authenticate that succeeds returns Ok(None), and on the
\* token path the token file is never created, truncated or written: the call
\* makes no create or write operation and every step leaves the file as it is.
C23_TokenAuthLeavesFile ==
  /\ []((op = "authenticate" /\ TokenPath) =>
         /\ \A i \in DOMAIN fsops : fsops[i].op \notin {"create", "write"}
         /\ (Len(wire) = 2 /\ IsOkTg(wire[2].input)) => (pc = "done" /\ ret = Ok(None)))
  /\ [][(op = "authenticate" /\ TokenPath') => fs' = fs]_vars

C23_Witness ==
  /\ AuthDone /\ TokenPath
  /\ ret = Ok(None)
  /\ cred.token = None /\ fs.token_file = {"T1 "}
  /\ Len(wire) = 2 /\ Have(wire[2].input.params, "Tkn")

\* The call took the account path: its Auth request carries no Tkn
AccountPath == wire # <<>> /\ ~Have(wire[1].tg.params, "Tkn")

\* C24: on the account path the one Auth request carries AccName and Pass, and
\* carries ReqTkn if and only if the Auth context names a token file.
C24_AccountRequestShape ==
  (op = "authenticate" /\ AccountPath) =>
    LET p == wire[1].tg.params
    IN /\ Cardinality(Events("write", "ctl")) = 1
       /\ wire[1].tg.topic = {"Auth"}
       /\ {"AccName", "Pass"} \subseteq DOMAIN p
       /\ DOMAIN p \subseteq {"AccName", "Pass", "ReqTkn"}
       /\ p["AccName"] = Unwrap(cred.name)
       /\ Have(p, "ReqTkn") <=> IsSome(cred.token_file)

C24_Witness ==
  /\ AuthDone /\ AccountPath /\ IsOk(ret)
  /\ cred.token_file = None
  /\ Len(wire) = 2 /\ Have(wire[2].input.params, "Tkn")

\* C25: if no token is resolved (no inline token, and no token file that
\* yields a line) and no account name is configured, authenticate has failed
\* with InvalidCredentials and has written no frame.
C25_NoTokenNoAccount ==
  (op = "authenticate" /\ cred.name = None /\ cred.token = None
     /\ (cred.token_file = None \/ fs.token_file \in {None, Some("")})) =>
    /\ pc = "done"
    /\ ret = Err("InvalidCredentials")
    /\ wire = <<>>

C25_Witness ==
  /\ AuthDone
  /\ cred.name = None /\ cred.token = None /\ cred.token_file = None
  /\ IsSome(cred.pass)
  /\ ret = Err("InvalidCredentials")

\* get_token leaves the account path open: no inline token, and no token file
\* on disk
NoTokenSource == cred.token = None /\ (cred.token_file = None \/ fs.token_file = None)

\* The passphrase file yields no line
NoPassLine == cred.pass_file = None \/ fs.pass_file \in {None, Some("")}

\* C26 as stated: on the account path the Pass sent is the inline passphrase
\* if set, otherwise the first line of the passphrase file; if neither yields
\* a passphrase, authenticate fails with InvalidCredentials and sends nothing.
C26_PassIsInlineOrFirstLine ==
  (op = "authenticate" /\ NoTokenSource /\ IsSome(cred.name)) =>
    /\ AccountPath =>
         wire[1].tg.params["Pass"] =
           (IF IsSome(cred.pass) THEN Unwrap(cred.pass) ELSE Unwrap(fs.pass_file))
    /\ (cred.pass = None /\ NoPassLine) =>
         (pc = "done" /\ ret = Err("InvalidCredentials") /\ wire = <<>>)

\* The lines of the model's passphrase files, without their trailing whitespace
Stripped == ("pw2" :> "pw2") @@ ("pw2 " :> "pw2")

\* C26, amended: on the account path the Pass sent is the inline passphrase if
\* set, otherwise the first line of the passphrase file with its trailing
\* whitespace removed; if neither yields a passphrase, authenticate fails with
\* InvalidCredentials and sends nothing.
C26_PassIsInlineOrTrimmedLine ==
  (op = "authenticate" /\ NoTokenSource /\ IsSome(cred.name)) =>
    /\ AccountPath =>
         wire[1].tg.params["Pass"] =
           (IF IsSome(cred.pass) THEN Unwrap(cred.pass) ELSE Stripped[Unwrap(fs.pass_file)])
    /\ (cred.pass = None /\ NoPassLine) =>
         (pc = "done" /\ ret = Err("InvalidCredentials") /\ wire = <<>>)
    /\ (IsSome(cred.pass) \/ ~NoPassLine) => wire # <<>> \/ ret = Err("IO")

C26_Witness ==
  /\ AuthDone /\ AccountPath
  /\ cred.pass = None /\ fs.pass_file = {"pw2 "}
  /\ wire[1].tg.params["Pass"] = "pw2"

\* connect was given an Auth context and its transport is connected
ConnectWithAuth == op = "connect" /\ link.calls = 1

\* The token file was created and the call ended before or in the write
TokenFileWriteError ==
  /\ fsops # <<>>
  /\ \/ fsops[Len(fsops)].op = "create"
     \/ fsops[Len(fsops)].op = "write" /\ fs.token_file = {""}

\* C27: connect with an Auth context holds the connection itself until
\* authenticate has returned; it hands the connection to the caller only after
\* an Ok reply to the Auth request, and when authentication fails (invalid
\* credentials, write error, Fail reply, unexpected reply, disconnect, token
\* file error) it returns that error and drops the connection.
C27_ConnectAuthenticatesFirst ==
  ConnectWithAuth =>
    /\ pc # "done" => (ret = Pending /\ link.owner = "connect")
    /\ pc = "done" =>
         /\ IsOk(ret) <=> link.owner = "caller"
         /\ IsErr(ret) <=> link.owner = "dropped"
         /\ IsOk(ret) => (ret = Ok("Frm") /\ Len(wire) = 2 /\ IsOkTg(wire[2].input))
         /\ wire = <<>> => ret \in {Err("InvalidCredentials"), Err("IO")}
         /\ Len(wire) = 2 =>
              LET in == wire[2].input
              IN /\ in = Closed => ret = Err("Disconnected")
                 /\ (in \notin {Closed, CodecError} /\ IsFailTg(in)) => ret = ServerError(in.params)
                 /\ (in \notin {Closed, CodecError} /\ ~IsFailTg(in) /\ ~IsOkTg(in)) =>
                      ret = Err("BadState")
                 /\ (in \notin {Closed, CodecError} /\ IsOkTg(in)) =>
                      (IsErr(ret) <=> TokenFileWriteError)
                 /\ TokenFileWriteError => ret = Err("IO")

C27_Witness ==
  /\ ConnectWithAuth /\ pc = "done"
  /\ Len(wire) = 2 /\ IsOkTg(wire[2].input)
  /\ TokenFileWriteError
  /\ ret = Err("IO") /\ link.owner = "dropped"

\* C28: during and after an explicit authenticate call the connection stays
\* with the caller, whatever the call returns; after a failed call another
\* call on the same connection can be made (up to MaxAuthCalls calls); a
\* connection on which connect's authentication failed is dropped and gets no
\* second call.
C28_ExplicitAuthKeepsConnection ==
  /\ op = "authenticate" => link.owner = "caller"
  /\ (AuthDone /\ IsErr(ret) /\ link.calls < MaxAuthCalls) =>
       ENABLED (\E wok \in BOOLEAN : AuthAgain(wok))
  /\ op = "connect" => link.calls <= 1 /\ link.prior = "none"

C28_Witness ==
  /\ AuthDone /\ IsOk(ret)
  /\ link.calls = 2 /\ link.prior = "err"
  /\ link.owner = "caller"

SendRecvDone == op = "sendrecv" /\ pc = "done"

\* The reply frame is a telegram
IsTg(in) == in \notin {Closed, CodecError} /\ in.t = "Telegram"

\* What sendrecv returns for the one frame it consumed, by the frame's topic
Classified(in, r) ==
  LET okTg == IsTg(in) /\ in.topic = {"Ok"}
      failTg == IsTg(in) /\ in.topic = {"Fail"}
      otherFrame == in \notin {Closed, CodecError} /\ ~okTg /\ ~failTg
  IN /\ okTg => r = Ok(in.params)
     /\ IsOk(r) => okTg
     /\ failTg => r = ServerError(in.params)
     /\ (IsErr(r) /\ r.err = "ServerError") => failTg
     /\ otherFrame <=> r = Err("BadState")
     /\ in = Closed <=> r = Err("Disconnected")

\* C29 as stated: a returned sendrecv has written exactly one telegram and then
\* consumed exactly one frame, and its result is Ok(params) iff the frame is an
\* Ok telegram, ServerError(params) iff it is a Fail telegram, BadState for
\* any other frame, Disconnected for a closed stream; one of the four occurs.
C29_OneWriteOneReadFourOutcomes ==
  SendRecvDone =>
    /\ Len(wire) = 2
    /\ wire[1].ev = "write" /\ wire[2].ev = "read"
    /\ Classified(wire[2].input, ret)
    /\ \/ IsOk(ret)
       \/ ret.err \in {"ServerError", "BadState", "Disconnected"}

\* C29, amended: sendrecv writes its telegram first; if that write fails it
\* returns the write error without consuming a frame. Otherwise it consumes
\* exactly one item of the incoming stream and returns Ok(params) iff it is an
\* Ok telegram, ServerError(params) iff it is a Fail telegram, BadState for
\* any other frame, Disconnected for a closed stream, and the decoder's error
\* if the read failed; exactly one of these outcomes occurs.
C29_OneWriteThenOneClassifiedRead ==
  /\ (op = "sendrecv" /\ pc = "sendrecv_reply") =>
       (Len(wire) = 1 /\ wire[1].ev = "write" /\ wire[1].tg \in Requests)
  /\ SendRecvDone =>
       \/ wire = <<>> /\ ret = Err("IO")
       \/ /\ Len(wire) = 2
          /\ wire[1].ev = "write" /\ wire[1].tg \in Requests
          /\ wire[2].ev = "read"
          /\ Classified(wire[2].input, ret)
          /\ wire[2].input = CodecError <=> ret = Err("Blather")
          /\ \/ IsOk(ret)
             \/ ret.err \in {"ServerError", "BadState", "Disconnected", "Blather"}

C29_Witness ==
  /\ SendRecvDone
  /\ Len(wire) = 2 /\ wire[2].input = [t |-> "Bytes"]
  /\ ret = Err("BadState")

\* The strings the three enums are written as
ExactStrings(kind) ==
  IF kind = "Type" THEN {"sender", "receiver"}
  ELSE IF kind = "Protocol" THEN {"ethernet", "udp"}
  ELSE {"pcap", "generic"}

\* C30: a value of Type, Protocol or ProtImpl is displayed as one of
\* sender/receiver, ethernet/udp, pcap/generic, and parsing that string gives
\* the value back; parsing a string that is not one of the enum's two strings
\* fails with BadInput.
C30_DisplayFromStrRoundTrip ==
  op = "node" =>
    /\ IsSome(node.val) => node.text \in ExactStrings(node.kind)
    /\ (IsSome(node.val) /\ pc = "done") => node.parsed = Ok(Unwrap(node.val))
    /\ (pc = "done" /\ node.text \notin ExactStrings(node.kind)) =>
         node.parsed = Err("BadInput")
    /\ (pc = "done" /\ node.text \in ExactStrings(node.kind)) =>
         (IsOk(node.parsed) /\ node.parsed.val \in Variants(node.kind))

C30_Witness ==
  /\ op = "node" /\ pc = "done"
  /\ node.kind = "Protocol" /\ node.val = {"UDP"}
  /\ node.text = "udp" /\ node.parsed = Ok("UDP")

\* send has written its Msg request
SentMsg == op = "send" /\ wire # <<>>

\* The size send computes for a section of the descriptor: 0 for an absent
\* section, else the byte count as the u32 (metadata) or u64 (payload) it is
\* cast to
ComputedSize(sec) ==
  LET o == IF sec = "meta" THEN mi.meta ELSE mi.payload
  IN IF o = None THEN 0 ELSE Unwrap(o).size.lo

\* C31: the Msg request send writes always carries _Ch; it carries Cmd iff the
\* command id is non-zero, MetaLen iff the computed metadata size is non-zero
\* and Len iff the computed payload size is non-zero, each with that value; an
\* absent section has size 0 and so declares nothing.
C31_MsgRequestFields ==
  SentMsg =>
    LET p == wire[1].tg.params
    IN /\ wire[1].ev = "write" /\ wire[1].sec = "ctl"
       /\ wire[1].tg.topic = {"Msg"}
       /\ Have(p, "_Ch") /\ p["_Ch"] \in Channels
       /\ DOMAIN p \subseteq {"_Ch", "Cmd", "MetaLen", "Len"}
       /\ Have(p, "Cmd") <=> mi.cmd # 0
       /\ Have(p, "Cmd") => p["Cmd"] = mi.cmd
       /\ Have(p, "MetaLen") <=> ComputedSize("meta") # 0
       /\ Have(p, "MetaLen") => p["MetaLen"] = ComputedSize("meta")
       /\ Have(p, "Len") <=> ComputedSize("payload") # 0
       /\ Have(p, "Len") => p["Len"] = ComputedSize("payload")
       /\ mi.meta = None => ~Have(p, "MetaLen")
       /\ mi.payload = None => ~Have(p, "Len")

C31_Witness ==
  /\ SentMsg
  /\ mi.cmd = 0
  /\ IsSome(mi.meta) /\ Unwrap(mi.meta).size = USize(0, 0)
  /\ IsSome(mi.payload)
  /\ wire[1].tg.params = ("_Ch" :> "news") @@ ("Len" :> PayloadBytes)

\* C32: the MetaLen send declares (0 when it declares none) is the byte size of
\* the metadata it goes on to stream; it never declares the size of metadata
\* above 2^32 - 1 bytes reduced modulo 2^32.
C32_MetaLenIsActualSize ==
  (SentMsg /\ IsSome(mi.meta)) =>
    LET p == wire[1].tg.params
    IN Unwrap(mi.meta).size = USize(0, IF Have(p, "MetaLen") THEN p["MetaLen"] ELSE 0)

ContentReads == Events("read", "meta") \cup Events("read", "payload")

\* C33: within one recv the storeq callback is invoked after the control frame
\* has been read and before the codec is set up for, or reads, any content;
\* each section is read at most once, the metadata before the payload, and a
\* payload is read only after the metadata of a message that has metadata.
C33_RecvPhasesInOrder ==
  InRecv =>
    /\ \A i \in Events("storeq", "ctl") :
         /\ \E j \in Events("read", "ctl") : j < i
         /\ \A k \in ContentReads \cup Events("codec", "meta") \cup Events("codec", "payload") :
              i < k
    /\ ContentReads # {} => Events("storeq", "ctl") # {}
    /\ Cardinality(Events("read", "meta")) <= 1
    /\ Cardinality(Events("read", "payload")) <= 1
    /\ \A i \in Events("read", "meta") :
         \A j \in Events("read", "payload") \cup Events("codec", "payload") : i < j
    /\ \A j \in Events("read", "payload") :
         rcv.metalen # 0 => \E i \in Events("read", "meta") : i < j

C33_Witness ==
  /\ op = "recv" /\ pc = "done" /\ IsOk(ret)
  /\ Events("storeq", "ctl") = {2}
  /\ Events("read", "meta") = {4}
  /\ Events("read", "payload") = {6}

\* The reads of a credential file made by the current authenticate call
FileReads(field) == {i \in DOMAIN fsops : fsops[i] = FsOp("read", field)}

\* C34: within one authenticate call the token file and the passphrase file
\* are each read at most once, and only when needed: the token file is not
\* touched when an inline token is set, the passphrase file is not read when
\* an inline passphrase is set, when a token was resolved or when the call
\* failed while resolving the token.
C34_FileSecretsReadLazilyOnce ==
  InAuth =>
    /\ Cardinality(FileReads("token_file")) <= 1
    /\ Cardinality(FileReads("pass_file")) <= 1
    /\ IsSome(cred.token) => \A i \in DOMAIN fsops : fsops[i].file # "token_file"
    /\ IsSome(cred.pass) => FileReads("pass_file") = {}
    /\ (wire # <<>> /\ Have(wire[1].tg.params, "Tkn")) => FileReads("pass_file") = {}
    /\ (FileReads("token_file") # {} /\ fs.token_file # None) => FileReads("pass_file") = {}
    /\ cred.name = None => FileReads("pass_file") = {}

C34_Witness ==
  /\ AuthDone /\ IsOk(ret)
  /\ cred.token = None /\ IsSome(cred.token_file) /\ fs.token_file = {"T1"}
  /\ IsSome(cred.name) /\ cred.pass = None /\ fs.pass_file = {"pw2"}
  /\ fsops = <<FsOp("exists", "token_file"), FsOp("read", "token_file")>>

\* The other of the two reception loops
OtherLoop == IF op = "recvloop" THEN "recvloop_a" ELSE "recvloop"

C36_FrameAlignedAfterOk ==
  ((op = "recv" /\ pc = "done" /\ IsOk(ret)) \/ (IsLoop /\ pc = "procmsg")) =>
    peer = <<>>

\* The call is the second on its connection; the first obtained a token from
\* the server, and the token file holds that token
AfterTokenStored ==
  /\ op = "authenticate" /\ link.calls = 2
  /\ link.prior = "ok_token"
  /\ cred.token = None
  /\ \E in \in AuthReplies :
       IsTg(in) /\ Have(in.params, "Tkn") /\ fs.token_file = Some(in.params["Tkn"])

TouchedTokenFile == \E i \in DOMAIN fsops : fsops[i].op \in {"create", "write"}

\* The reply to the Auth request is an Ok telegram that carries a token
ReplyWithToken(w) ==
  /\ Len(w) = 2
  /\ IsTg(w[2].input) /\ IsOkTg(w[2].input)
  /\ Have(w[2].input.params, "Tkn")

\* C38: the token file changes only in the step in which the Ok reply to an
\* account authentication arrives carrying a token, with a token file
\* configured; a call that failed with InvalidCredentials, ServerError,
\* BadState or Disconnected, or failed to write its request, or succeeded on
\* the account path without a token in the reply, has neither created nor
\* written the file.
C38_TokenFileOnlyOnIssuedToken ==
  /\ [](InAuth =>
          /\ TouchedTokenFile =>
               (AccountPath /\ ReplyWithToken(wire) /\ IsSome(cred.token_file))
          /\ (pc = "done" /\ IsErr(ret)
                /\ ret.err \in {"InvalidCredentials", "ServerError", "BadState", "Disconnected"}) =>
               ~TouchedTokenFile
          /\ (pc = "done" /\ IsOk(ret) /\ AccountPath /\ ~ReplyWithToken(wire)) =>
               ~TouchedTokenFile)
  /\ [][(InAuth /\ op' = op /\ fs' # fs) =>
          /\ pc = "auth_accpass_reply"
          /\ ReplyWithToken(wire')
          /\ IsSome(cred.token_file)
          /\ fs'.pass_file = fs.pass_file]_vars

C38_Witness ==
  /\ AuthDone /\ AccountPath
  /\ IsSome(cred.token_file) /\ fs.token_file = None
  /\ Len(wire) = 2 /\ IsOkTg(wire[2].input) /\ ~Have(wire[2].input.params, "Tkn")
  /\ ret = Ok(None)
  /\ fsops = <<FsOp("exists", "token_file")>>

\* The token file was there when the call started, and has no line
TokenFileWithoutLine ==
  /\ cred.token = None /\ IsSome(cred.token_file)
  /\ fs.token_file = Some("")
  /\ ~TouchedTokenFile

\* C40: without an inline token, a token file that exists but yields no first
\* line makes authenticate fail with InvalidCredentials before any request is
\* written, also when an account name and a passphrase are configured: the
\* passphrase is not looked up and no token is requested.
C40_UnreadableTokenFileFails ==
  (op = "authenticate" /\ TokenFileWithoutLine) =>
    /\ pc = "done"
    /\ ret = Err("InvalidCredentials")
    /\ wire = <<>>
    /\ fsops = <<FsOp("exists", "token_file"), FsOp("read", "token_file")>>

C40_Witness ==
  /\ AuthDone /\ TokenFileWithoutLine
  /\ IsSome(cred.name) /\ IsSome(cred.pass)
  /\ link.calls = 1
  /\ ret = Err("InvalidCredentials")

\* C39: once the kill switch of a reception loop has fired the loop returns,
\* however many messages the peer goes on sending and although procmsg
\* succeeds every time.
C39_KillEventuallyEndsLoop ==
  (IsLoop /\ loop.kill = "fired") ~> (pc = "done")

C39_Witness ==
  /\ IsLoop /\ loop.kill = "fired"
  /\ loop.started = MaxMsgs /\ loop.procmsg = MaxMsgs
  /\ pc = "procmsg"

====
